---- MODULE Spec2Model ----
(***************************************************************************)
(* Alberta land-use feasibility tool: the property parser, the             *)
(* municipality lookup, the policy engine and the analysis entry point.    *)
(*                                                                         *)
(* Text is a TLA+ string; a character is a string of length 1.  Decimal    *)
(* numbers (acreage) are integers in hundredths, distances are integers in *)
(* hectometres, coordinates are integers in 1/10000 of a degree.           *)
(***************************************************************************)
EXTENDS Integers, Sequences, FiniteSets, TLC

(***************************************************************************)
(* Python values                                                           *)
(***************************************************************************)
\* None, and a value that is present (Optional[...]).
None == <<>>

Some(x) == <<x>>

\* An empty dict.
EmptyDict == [k \in {} |-> ""]

Min(a, b) == IF a < b THEN a ELSE b

\* A str in a place where the code expects a number: the text with its type,
\* which no Some(x) equals.
Str(text) == <<text, "str">>

is_str(value) == Len(value) = 2

(***************************************************************************)
(* str methods                                                             *)
(***************************************************************************)
UpperLetters ==
    {"A","B","C","D","E","F","G","H","I","J","K","L","M",
     "N","O","P","Q","R","S","T","U","V","W","X","Y","Z"}

LowerLetters ==
    {"a","b","c","d","e","f","g","h","i","j","k","l","m",
     "n","o","p","q","r","s","t","u","v","w","x","y","z"}

Digits == {"0","1","2","3","4","5","6","7","8","9"}

\* The characters str.split, str.strip and \s treat as whitespace.
Whitespace == {" ", "\t", "\n"}

ToLowerMap ==
    [c \in UpperLetters |->
        CASE c = "A" -> "a" [] c = "B" -> "b" [] c = "C" -> "c" [] c = "D" -> "d"
          [] c = "E" -> "e" [] c = "F" -> "f" [] c = "G" -> "g" [] c = "H" -> "h"
          [] c = "I" -> "i" [] c = "J" -> "j" [] c = "K" -> "k" [] c = "L" -> "l"
          [] c = "M" -> "m" [] c = "N" -> "n" [] c = "O" -> "o" [] c = "P" -> "p"
          [] c = "Q" -> "q" [] c = "R" -> "r" [] c = "S" -> "s" [] c = "T" -> "t"
          [] c = "U" -> "u" [] c = "V" -> "v" [] c = "W" -> "w" [] c = "X" -> "x"
          [] c = "Y" -> "y" [] c = "Z" -> "z"]

ToUpperMap ==
    [c \in LowerLetters |-> CHOOSE u \in UpperLetters : ToLowerMap[u] = c]

CharAt(s, i) == SubSeq(s, i, i)

LowerChar(c) == IF c \in UpperLetters THEN ToLowerMap[c] ELSE c

UpperChar(c) == IF c \in LowerLetters THEN ToUpperMap[c] ELSE c

RECURSIVE lower(_)
\* str.lower()
lower(s) ==
    IF Len(s) = 0 THEN ""
    ELSE LowerChar(CharAt(s, 1)) \o lower(SubSeq(s, 2, Len(s)))

RECURSIVE upper(_)
\* str.upper()
upper(s) ==
    IF Len(s) = 0 THEN ""
    ELSE UpperChar(CharAt(s, 1)) \o upper(SubSeq(s, 2, Len(s)))

RECURSIVE replace_space(_)
\* str.replace(' ', ''): removes the space character only.
replace_space(s) ==
    IF Len(s) = 0 THEN ""
    ELSE (IF CharAt(s, 1) = " " THEN "" ELSE CharAt(s, 1))
            \o replace_space(SubSeq(s, 2, Len(s)))

RECURSIVE lstrip(_)
lstrip(s) ==
    IF Len(s) > 0 /\ CharAt(s, 1) \in Whitespace
    THEN lstrip(SubSeq(s, 2, Len(s))) ELSE s

RECURSIVE rstrip(_)
rstrip(s) ==
    IF Len(s) > 0 /\ CharAt(s, Len(s)) \in Whitespace
    THEN rstrip(SubSeq(s, 1, Len(s) - 1)) ELSE s

\* str.strip()
strip(s) == rstrip(lstrip(s))

\* needle in hay (substring test)
Contains(hay, needle) ==
    \E i \in 1..(Len(hay) - Len(needle) + 1) :
        SubSeq(hay, i, i + Len(needle) - 1) = needle

RECURSIVE SplitFrom(_, _, _)
\* str.split(): the maximal runs of non-whitespace characters, in order.
\* i is the next character to read, word the run read so far.
SplitFrom(s, i, word) ==
    IF i > Len(s) THEN (IF word = "" THEN <<>> ELSE <<word>>)
    ELSE IF CharAt(s, i) \in Whitespace
         THEN (IF word = "" THEN <<>> ELSE <<word>>) \o SplitFrom(s, i + 1, "")
         ELSE SplitFrom(s, i + 1, word \o CharAt(s, i))

split(s) == SplitFrom(s, 1, "")

(***************************************************************************)
(* re: compiled patterns searched with IGNORECASE.  A pattern is a         *)
(* sequence of items; an item is a character class with a greedy           *)
(* repetition lo..hi (hi = -1: unbounded) or an ordered alternation of     *)
(* literal words.  Classes and words are written in lower case and are     *)
(* matched against the lower-cased text.                                   *)
(***************************************************************************)
Cls(set, lo, hi) == [k |-> "cls", set |-> set, lo |-> lo, hi |-> hi, words |-> <<>>]

Alt(words) == [k |-> "alt", set |-> {}, lo |-> 0, hi |-> 0, words |-> words]

\* A literal word as one item.
Lit(word) == Alt(<<word>>)

NoMatch == [ok |-> FALSE, start |-> 0, ends |-> <<>>]

RECURSIVE Run(_, _, _)
\* How many characters of s from position pos on are in set.
Run(set, s, pos) ==
    IF pos <= Len(s) /\ CharAt(s, pos) \in set
    THEN 1 + Run(set, s, pos + 1) ELSE 0

RECURSIVE MatchFrom(_, _, _, _)
RECURSIVE TryCount(_, _, _, _, _)
RECURSIVE TryAlt(_, _, _, _, _)
\* Items k.. of pat matched at position pos of s, by backtracking: the longest
\* repetition first, the alternatives in their order.  ends[i] is the position
\* after item k+i-1.
MatchFrom(pat, k, s, pos) ==
    IF k > Len(pat) THEN [ok |-> TRUE, start |-> pos, ends |-> <<>>]
    ELSE IF pat[k].k = "cls"
         THEN LET run == Run(pat[k].set, s, pos)
                  most == IF pat[k].hi < 0 THEN run ELSE Min(pat[k].hi, run)
              IN  TryCount(pat, k, s, pos, most)
         ELSE TryAlt(pat, k, s, pos, 1)

TryCount(pat, k, s, pos, c) ==
    IF c < pat[k].lo THEN NoMatch
    ELSE LET rest == MatchFrom(pat, k + 1, s, pos + c)
         IN  IF rest.ok
             THEN [ok |-> TRUE, start |-> pos, ends |-> <<pos + c>> \o rest.ends]
             ELSE TryCount(pat, k, s, pos, c - 1)

TryAlt(pat, k, s, pos, j) ==
    IF j > Len(pat[k].words) THEN NoMatch
    ELSE LET w == pat[k].words[j]
             fits == pos + Len(w) - 1 <= Len(s)
                        /\ SubSeq(s, pos, pos + Len(w) - 1) = w
             rest == MatchFrom(pat, k + 1, s, pos + Len(w))
         IN  IF fits /\ rest.ok
             THEN [ok |-> TRUE, start |-> pos, ends |-> <<pos + Len(w)>> \o rest.ends]
             ELSE TryAlt(pat, k, s, pos, j + 1)

RECURSIVE SearchFrom(_, _, _)
SearchFrom(pat, s, start) ==
    IF start > Len(s) + 1 THEN NoMatch
    ELSE LET m == MatchFrom(pat, 1, s, start)
         IN  IF m.ok THEN m ELSE SearchFrom(pat, s, start + 1)

\* pattern.search(text) with re.IGNORECASE: the leftmost match.
search(pat, text) == SearchFrom(pat, lower(text), 1)

\* The text of items i..j of match m (a group of the pattern).
group(text, m, i, j) ==
    LET from == IF i = 1 THEN m.start ELSE m.ends[i - 1]
    IN  SubSeq(text, from, m.ends[j] - 1)

\* \d, \s, \w and [A-Za-z0-9\s] under IGNORECASE.
WordChars == LowerLetters \cup Digits \cup {"_"}

AlnumSpace == LowerLetters \cup Digits \cup Whitespace

Sp == Cls(Whitespace, 0, -1)

Comma == Cls({","}, 0, 1)

Dash == Cls({"-"}, 1, 1)

(***************************************************************************)
(* property_parser.PropertyParser                                          *)
(***************************************************************************)
\* A variant of legal_pattern_names with the patterns in the opposite order.
legal_pattern_names_reversed == <<"section", "parcel", "lot_block", "quarter_section">>

\* legal_patterns, in the order of the dict.
legal_pattern_names == <<"quarter_section", "lot_block", "parcel", "section">>

legal_patterns ==
    [quarter_section |->
        <<Cls({"n","s","e","w"}, 1, 2), Sp, Cls(Digits, 1, 2), Sp, Dash, Sp,
          Cls(Digits, 1, 3), Sp, Dash, Sp, Cls(Digits, 1, 3), Sp, Dash, Sp,
          Cls({"w","e"}, 1, 1), Sp, Cls(Digits, 1, 1)>>,
     lot_block |->
        <<Lit("lot"), Sp, Cls(Digits, 1, -1), Sp, Comma, Sp,
          Lit("block"), Sp, Cls(Digits, 1, -1), Sp, Comma, Sp,
          Lit("plan"), Sp, Cls(WordChars, 1, -1)>>,
     parcel |->
        <<Lit("parcel"), Sp, Cls(WordChars, 1, -1), Sp, Comma, Sp,
          Lit("plan"), Sp, Cls(WordChars, 1, -1)>>,
     section |->
        <<Lit("section"), Sp, Cls(Digits, 1, 2), Sp, Comma, Sp,
          Lit("township"), Sp, Cls(Digits, 1, 3), Sp, Comma, Sp,
          Lit("range"), Sp, Cls(Digits, 1, 3), Sp, Comma, Sp,
          Cls({"w","e"}, 1, 1), Sp, Cls(Digits, 1, 1)>>]

address_patterns ==
    [street_address |->
        <<Cls(Digits, 1, -1), Cls(Whitespace, 1, -1), Cls(AlnumSpace, 1, -1),
          Alt(<<"street", "st", "avenue", "ave", "road", "rd", "drive", "dr",
                "lane", "ln", "boulevard", "blvd", "way", "circle", "cir",
                "court", "ct", "crescent", "cres">>)>>,
     rural_address |->
        <<Alt(<<"rr", "rural route", "range road", "township road",
                "highway", "hwy">>), Sp, Cls(Digits, 1, -1)>>,
     postal_code |->
        <<Cls(LowerLetters, 1, 1), Cls(Digits, 1, 1), Cls(LowerLetters, 1, 1), Sp,
          Cls(Digits, 1, 1), Cls(LowerLetters, 1, 1), Cls(Digits, 1, 1)>>]

\* (\d+\.?\d*)\s*acres?
acreage_pattern ==
    <<Cls(Digits, 1, -1), Cls({"."}, 0, 1), Cls(Digits, 0, -1), Sp,
      Lit("acre"), Cls({"s"}, 0, 1)>>

_parse_address(address) ==
    LET street_match == search(address_patterns.street_address, address)
        rural_match == search(address_patterns.rural_address, address)
        postal_match == search(address_patterns.postal_code, address)
        street_components ==
            [number |-> group(address, street_match, 1, 1),
             street |-> strip(group(address, street_match, 3, 4))]
        rural_components ==
            [road_type |-> group(address, rural_match, 1, 1),
             road_number |-> group(address, rural_match, 3, 3)]
        type1 == IF street_match.ok THEN "street" ELSE "unknown"
        components1 == IF street_match.ok THEN street_components ELSE EmptyDict
        type2 == IF rural_match.ok THEN "rural" ELSE type1
        components2 == IF rural_match.ok THEN rural_components ELSE components1
        components3 ==
            IF postal_match.ok
            THEN ("postal_code" :>
                    replace_space(upper(group(address, postal_match, 1, 7))))
                 @@ components2
            ELSE components2
    IN  [type |-> type2, components |-> components3, full_address |-> strip(address)]

\* The components dict the loop builds for the pattern that matched.
legal_components(pattern_name, text, m) ==
    CASE pattern_name = "quarter_section" ->
            [quarter |-> group(text, m, 1, 1), section |-> group(text, m, 3, 3),
             township |-> group(text, m, 7, 7), range |-> group(text, m, 11, 11),
             meridian_direction |-> group(text, m, 15, 15),
             meridian |-> group(text, m, 17, 17)]
      [] pattern_name = "lot_block" ->
            [lot |-> group(text, m, 3, 3), block |-> group(text, m, 9, 9),
             plan |-> group(text, m, 15, 15)]
      [] pattern_name = "parcel" ->
            [parcel |-> group(text, m, 3, 3), plan |-> group(text, m, 9, 9)]
      [] pattern_name = "section" ->
            [section |-> group(text, m, 3, 3), township |-> group(text, m, 9, 9),
             range |-> group(text, m, 15, 15),
             meridian_direction |-> group(text, m, 19, 19),
             meridian |-> group(text, m, 21, 21)]

RECURSIVE legal_loop(_, _)
\* The for loop over legal_patterns.items() from the i-th pattern on: the first
\* pattern that matches sets type and components, then break.
legal_loop(legal_desc, i) ==
    IF i > Len(legal_pattern_names)
    THEN [type |-> "unknown", components |-> EmptyDict,
          full_description |-> strip(legal_desc)]
    ELSE LET pattern_name == legal_pattern_names[i]
             m == search(legal_patterns[pattern_name], legal_desc)
         IN  IF m.ok
             THEN [type |-> pattern_name,
                   components |-> legal_components(pattern_name, legal_desc, m),
                   full_description |-> strip(legal_desc)]
             ELSE legal_loop(legal_desc, i + 1)

_parse_legal_description(legal_desc) == legal_loop(legal_desc, 1)

\* What the provider does with one query: it finds a location, finds none, runs
\* into the timeout, reports a service error, or fails in another way (an
\* exception that is neither GeocoderTimedOut nor GeocoderServiceError).
Located(lat, lon) == [kind |-> "location", latitude |-> lat, longitude |-> lon]

NoLocation == [kind |-> "no_result", latitude |-> 0, longitude |-> 0]

TimedOut == [kind |-> "timeout", latitude |-> 0, longitude |-> 0]

ServiceError == [kind |-> "service_error", latitude |-> 0, longitude |-> 0]

OtherFailure == [kind |-> "other_error", latitude |-> 0, longitude |-> 0]

\* The result of a call: a returned value, or an exception that leaves it.
Return(v) == [raised |-> FALSE, value |-> v]

Raised == [raised |-> TRUE, value |-> None]

\* A variant of geocode_caught that swallows the timeout only.
geocode_caught_timeout_only == {"timeout"}

\* The except clause of _geocode_address: the exception classes it swallows.
geocode_caught == {"timeout", "service_error"}

\* The query sent to the provider.
full_address_query(address) == address \o ", Alberta, Canada"

_geocode_address(address, outcome) ==
    IF outcome.kind = "location"
    THEN Return(Some([latitude |-> outcome.latitude,
                      longitude |-> outcome.longitude,
                      display_name |-> full_address_query(address)]))
    ELSE IF outcome.kind = "no_result" THEN Return(None)
    ELSE IF outcome.kind \in geocode_caught THEN Return(None)
    ELSE Raised

municipalities ==
    <<"Red Deer", "Lacombe", "Ponoka", "Wetaskiwin", "Camrose", "Leduc",
      "Edmonton", "St. Albert", "Sherwood Park", "Fort Saskatchewan",
      "Morinville", "Legal", "Bon Accord", "Gibbons", "Redwater",
      "Smoky Lake", "Vilna", "Mundare", "Lamont", "Bruderheim",
      "Athabasca", "Boyle", "Westlock", "Barrhead", "Mayerthorpe",
      "Whitecourt", "Slave Lake", "High Prairie", "Valleyview">>

counties ==
    <<"Lacombe County", "Ponoka County", "Wetaskiwin County",
      "Camrose County", "Leduc County", "Strathcona County",
      "Sturgeon County", "Parkland County", "Lac Ste. Anne County",
      "Barrhead County", "Westlock County", "Athabasca County">>

\* A variant of all_locations that lists the counties first.
all_locations_counties_first == counties \o municipalities

all_locations == municipalities \o counties

\* The keywords of keywords that occur in text_lower, in the order of keywords.
KeywordsIn(keywords, text_lower) ==
    SelectSeq(keywords, LAMBDA keyword : Contains(text_lower, keyword))

_extract_municipality_hints(text) ==
    LET text_lower == lower(text)
    IN  SelectSeq(all_locations,
                  LAMBDA location : Contains(text_lower, lower(location)))

DigitValue(c) ==
    CASE c = "0" -> 0 [] c = "1" -> 1 [] c = "2" -> 2 [] c = "3" -> 3 [] c = "4" -> 4
      [] c = "5" -> 5 [] c = "6" -> 6 [] c = "7" -> 7 [] c = "8" -> 8 [] c = "9" -> 9

RECURSIVE int(_)
\* int() of a string of digits.
int(s) ==
    IF Len(s) = 0 THEN 0
    ELSE int(SubSeq(s, 1, Len(s) - 1)) * 10 + DigitValue(CharAt(s, Len(s)))

\* float() of digits, an optional point and digits, in hundredths (the texts of
\* the model carry at most two decimals).
float(s) ==
    LET whole == Run(Digits, s, 1)
        frac == SubSeq(s, whole + 2, Len(s))
        frac2 == SubSeq(frac \o "00", 1, 2)
    IN  int(SubSeq(s, 1, whole)) * 100 + int(frac2)

zoning_keywords == <<"commercial", "residential", "rural", "agricultural", "industrial">>

development_keywords == <<"develop", "cottages", "subdivision", "building", "construction">>

infrastructure_keywords == <<"septic", "water", "power", "sewer", "gas", "internet">>

\* The details dict: a key is present when its value below is not empty
\* (acreage: None when absent; each list is created by its first append).
NoDetails ==
    [acreage |-> None, zoning_hints |-> <<>>,
     development_intentions |-> <<>>, infrastructure_mentions |-> <<>>]

_extract_property_details(additional_info) ==
    LET acreage_match == search(acreage_pattern, additional_info)
        info_lower == lower(additional_info)
    IN  [acreage |->
            IF acreage_match.ok
            THEN Some(float(group(additional_info, acreage_match, 1, 3)))
            ELSE None,
         zoning_hints |-> KeywordsIn(zoning_keywords, info_lower),
         development_intentions |-> KeywordsIn(development_keywords, info_lower),
         infrastructure_mentions |-> KeywordsIn(infrastructure_keywords, info_lower)]

\* len(property_details)
details_len(details) ==
    Cardinality({k \in DOMAIN details : details[k] # <<>>})

\* A variant of _is_valid_property_info whose gate leaves the raw text out.
_is_valid_property_info_typed_only(property_info) ==
    \/ /\ property_info.parsed_address # None
       /\ property_info.parsed_address[1].type # "unknown"
    \/ /\ property_info.parsed_legal # None
       /\ property_info.parsed_legal[1].type # "unknown"
    \/ property_info.coordinates # None
    \/ Len(property_info.municipality_hints) > 0
    \/ details_len(property_info.property_details) > 0

\* A variant of _is_valid_property_info without a gate: every record passes.
_is_valid_property_info_always(property_info) == TRUE

_is_valid_property_info(property_info) ==
    LET has_address ==
            /\ property_info.parsed_address # None
            /\ property_info.parsed_address[1].type # "unknown"
        has_legal ==
            /\ property_info.parsed_legal # None
            /\ property_info.parsed_legal[1].type # "unknown"
        has_coordinates == property_info.coordinates # None
        has_municipality_hints == Len(property_info.municipality_hints) > 0
        has_property_details == details_len(property_info.property_details) > 0
        has_raw_input ==
            \/ property_info.raw_input.address # ""
            \/ property_info.raw_input.legal_description # ""
            \/ property_info.raw_input.additional_info # ""
    IN  \/ has_address
        \/ has_legal
        \/ has_coordinates
        \/ has_municipality_hints
        \/ has_property_details
        \/ has_raw_input

\* The record parse_property_info builds before the validity gate; coordinates
\* is what _geocode_address returned (None when it was not called).
build_property_info(address, legal_description, additional_info, coordinates) ==
    [raw_input |-> [address |-> address,
                    legal_description |-> legal_description,
                    additional_info |-> additional_info],
     parsed_address |->
        IF address # "" THEN Some(_parse_address(address)) ELSE None,
     parsed_legal |->
        IF legal_description # ""
        THEN Some(_parse_legal_description(legal_description)) ELSE None,
     coordinates |-> coordinates,
     municipality_hints |->
        _extract_municipality_hints(
            address \o " " \o legal_description \o " " \o additional_info),
     property_details |->
        IF additional_info # ""
        THEN _extract_property_details(additional_info) ELSE NoDetails]

\* parse_property_info, given what the provider does when it is queried.
parse_property_info(address, legal_description, additional_info, outcome) ==
    LET geocoded == IF address # "" THEN _geocode_address(address, outcome)
                    ELSE Return(None)
        property_info == build_property_info(address, legal_description,
                                             additional_info, geocoded.value)
    IN  IF geocoded.raised THEN Raised
        ELSE IF _is_valid_property_info(property_info)
             THEN Return(Some(property_info))
             ELSE Return(None)

(***************************************************************************)
(* municipality_lookup.MunicipalityLookup                                  *)
(***************************************************************************)
\* _load_municipalities_data: each category's records in the order of the dict
\* (website, planning_dept, zoning_map, population and the postal address of
\* contact_info are left out: no operation of the model reads them).
cities_table ==
    <<[name |-> "Red Deer", data |->
        [type |-> "city",
         coordinates |-> [lat |-> 522681, lon |-> -1138112],
         land_use_bylaw |-> "https://www.reddeer.ca/city-government/bylaws-and-policies/land-use-bylaw/",
         contact_info |-> [phone |-> "403-342-8111"]]],
      [name |-> "Edmonton", data |->
        [type |-> "city",
         coordinates |-> [lat |-> 535461, lon |-> -1134938],
         land_use_bylaw |-> "https://www.edmonton.ca/city_government/bylaws/zoning-bylaw",
         contact_info |-> [phone |-> "311"]]],
      [name |-> "Lacombe", data |->
        [type |-> "city",
         coordinates |-> [lat |-> 524675, lon |-> -1137364],
         land_use_bylaw |-> "https://www.lacombe.ca/government/bylaws/",
         contact_info |-> [phone |-> "403-782-6666"]]],
      [name |-> "Wetaskiwin", data |->
        [type |-> "city",
         coordinates |-> [lat |-> 529692, lon |-> -1133747],
         land_use_bylaw |-> "https://www.wetaskiwin.ca/government/bylaws-policies/",
         contact_info |-> [phone |-> "780-361-4400"]]],
      [name |-> "Camrose", data |->
        [type |-> "city",
         coordinates |-> [lat |-> 530167, lon |-> -1128333],
         land_use_bylaw |-> "https://www.camrose.ca/government/bylaws/",
         contact_info |-> [phone |-> "780-672-4428"]]],
      [name |-> "Athabasca", data |->
        [type |-> "town",
         coordinates |-> [lat |-> 547186, lon |-> -1132856],
         land_use_bylaw |-> "https://www.athabasca.ca/government/bylaws/",
         contact_info |-> [phone |-> "780-675-2273"]]]>>

counties_table ==
    <<[name |-> "Lacombe County", data |->
        [type |-> "county",
         coordinates |-> [lat |-> 524000, lon |-> -1138000],
         land_use_bylaw |-> "https://www.lacombecounty.com/government/bylaws/",
         contact_info |-> [phone |-> "403-782-8060"]]],
      [name |-> "Ponoka County", data |->
        [type |-> "county",
         coordinates |-> [lat |-> 526833, lon |-> -1135833],
         land_use_bylaw |-> "https://www.ponokacounty.com/government/bylaws/",
         contact_info |-> [phone |-> "403-783-3333"]]],
      [name |-> "Wetaskiwin County", data |->
        [type |-> "county",
         coordinates |-> [lat |-> 530000, lon |-> -1135000],
         land_use_bylaw |-> "https://www.county.wetaskiwin.ab.ca/government/bylaws/",
         contact_info |-> [phone |-> "780-352-3321"]]],
      [name |-> "Camrose County", data |->
        [type |-> "county",
         coordinates |-> [lat |-> 530000, lon |-> -1125000],
         land_use_bylaw |-> "https://www.camrosecounty.ab.ca/government/bylaws/",
         contact_info |-> [phone |-> "780-672-4446"]]],
      [name |-> "Leduc County", data |->
        [type |-> "county",
         coordinates |-> [lat |-> 532667, lon |-> -1135500],
         land_use_bylaw |-> "https://www.leduc-county.com/government/bylaws/",
         contact_info |-> [phone |-> "780-955-3555"]]],
      [name |-> "Strathcona County", data |->
        [type |-> "county",
         coordinates |-> [lat |-> 535167, lon |-> -1132000],
         land_use_bylaw |-> "https://www.strathcona.ca/council-county/bylaws/",
         contact_info |-> [phone |-> "780-464-8111"]]],
      [name |-> "Sturgeon County", data |->
        [type |-> "county",
         coordinates |-> [lat |-> 538000, lon |-> -1136000],
         land_use_bylaw |-> "https://www.sturgeoncounty.ca/government/bylaws/",
         contact_info |-> [phone |-> "780-939-4321"]]],
      [name |-> "Parkland County", data |->
        [type |-> "county",
         coordinates |-> [lat |-> 537000, lon |-> -1140000],
         land_use_bylaw |-> "https://www.parklandcounty.com/government/bylaws/",
         contact_info |-> [phone |-> "780-968-8888"]]],
      [name |-> "Athabasca County", data |->
        [type |-> "county",
         coordinates |-> [lat |-> 545000, lon |-> -1130000],
         land_use_bylaw |-> "https://www.athabascacounty.com/government/bylaws/",
         contact_info |-> [phone |-> "780-675-2273"]]]>>

MunicipalitiesTable ==
    <<[category_name |-> "cities", records |-> cities_table],
      [category_name |-> "counties", records |-> counties_table]>>

VARIABLES
    municipalities_data,   \* MunicipalityLookup.municipalities_data
    policy_cache,          \* PolicyRetrieval.policy_cache: cache key -> policy record
    pc,                    \* where analyze_property stands: idle, resolve, policy, done
    request,               \* the request's address, legal_description, additional_info
    provider_log,          \* the queries the geocoding provider received in this request
    property_info,         \* what parse_property_info gave (a call result)
    municipality_info,     \* what find_municipality gave (None until then)
    policy_info,           \* what get_land_use_policies gave (None until then)
    response,              \* the HTTP status of the request (0 while it runs)
    stages,                \* the component calls analyze_property made, in order
    cache_at_entry,        \* policy_cache as it was when the request came in
    served,                \* requests answered so far
    clock,                 \* time.strftime: the second of the wall clock
    call                   \* the last direct call of a library function and its result

vars == <<municipalities_data, policy_cache, pc, request, provider_log,
          property_info, municipality_info, policy_info, response, stages,
          cache_at_entry, served, clock, call>>

\* municipalities_data['cities'], municipalities_data['counties']
data_of(category_name) ==
    LET i == CHOOSE j \in 1..Len(municipalities_data) :
                municipalities_data[j].category_name = category_name
    IN  municipalities_data[i].records

\* data.copy() with result['name'] and result['category'] set
named_copy(entry, category_value) ==
    [name |-> entry.name, category |-> category_value] @@ entry.data

\* The test of the two loops of _find_by_name.
name_matches(table_name, name_lower) ==
    lower(table_name) = name_lower \/ Contains(name_lower, lower(table_name))

RECURSIVE find_in(_, _, _, _)
\* One loop of _find_by_name from record i on: the first record that matches.
find_in(records, i, name_lower, category_value) ==
    IF i > Len(records) THEN None
    ELSE IF name_matches(records[i].name, name_lower)
         THEN Some(named_copy(records[i], category_value))
         ELSE find_in(records, i + 1, name_lower, category_value)

\* A variant of _find_by_name that compares the name as it was given.
_find_by_name_as_given(name) ==
    LET city == find_in(data_of("cities"), 1, name, "city")
    IN  IF city # None THEN city
        ELSE find_in(data_of("counties"), 1, name, "county")

_find_by_name(name) ==
    LET name_lower == lower(name)
        city == find_in(data_of("cities"), 1, name_lower, "city")
    IN  IF city # None THEN city
        ELSE find_in(data_of("counties"), 1, name_lower, "county")

RECURSIVE rstrip_s(_)
\* str.rstrip('s'): removes every trailing 's'.
rstrip_s(s) ==
    IF Len(s) > 0 /\ CharAt(s, Len(s)) = "s"
    THEN rstrip_s(SubSeq(s, 1, Len(s) - 1)) ELSE s

Abs(n) == IF n < 0 THEN 0 - n ELSE n

RECURSIVE IsqrtBetween(_, _, _)
\* The integer square root of n, known to lie in lo..hi.
IsqrtBetween(n, lo, hi) ==
    IF lo >= hi THEN lo
    ELSE LET mid == (lo + hi + 1) \div 2
         IN  IF mid * mid <= n THEN IsqrtBetween(n, mid, hi)
             ELSE IsqrtBetween(n, lo, mid - 1)

Isqrt(n) == IsqrtBetween(n, 0, Min(n, 40000))

\* cos of a latitude (1/10000 degree), in thousandths, by whole degree.
CosMille(lat) ==
    LET deg == lat \div 10000
    IN  CASE deg <= 49 -> 656 [] deg = 50 -> 643 [] deg = 51 -> 629
          [] deg = 52 -> 616 [] deg = 53 -> 602 [] deg = 54 -> 588
          [] deg = 55 -> 574 [] OTHER -> 559

\* geodesic(p, q).kilometers, in hectometres: the distance on the plane tangent
\* at the mean latitude (1/10000 degree of latitude is 11.13 m).
geodesic(lat1, lon1, lat2, lon2) ==
    LET dy == (Abs(lat1 - lat2) * 1113) \div 10000
        dx == (((Abs(lon1 - lon2) * CosMille((lat1 + lat2) \div 2)) \div 1000)
                 * 1113) \div 10000
    IN  Isqrt(dx * dx + dy * dy)

\* "Consider within 50km as potential match", in hectometres.
proximity_limit == 500

\* The entries the two nested loops of _find_by_coordinates visit, in order.
RECURSIVE all_entries(_)
all_entries(i) ==
    IF i > Len(municipalities_data) THEN <<>>
    ELSE [j \in 1..Len(municipalities_data[i].records) |->
            [category_name |-> municipalities_data[i].category_name,
             entry |-> municipalities_data[i].records[j]]]
         \o all_entries(i + 1)

\* A variant of is_closer that lets an equal distance replace the closest.
is_closer_or_equal(distance, closest_distance) ==
    /\ distance < proximity_limit
    /\ (closest_distance = None \/ distance <= closest_distance[1])

\* A variant of is_closer that admits a municipality at the limit itself.
is_closer_or_at_limit(distance, closest_distance) ==
    /\ distance <= proximity_limit
    /\ (closest_distance = None \/ distance < closest_distance[1])

\* The test that makes a municipality the closest so far; closest_distance is
\* None while it is float('inf').
is_closer(distance, closest_distance) ==
    /\ distance < proximity_limit
    /\ (closest_distance = None \/ distance < closest_distance[1])

RECURSIVE closest_loop(_, _, _, _, _, _)
\* The loop of _find_by_coordinates from entry i on.
closest_loop(entries, i, lat, lon, closest_municipality, closest_distance) ==
    IF i > Len(entries) THEN closest_municipality
    ELSE LET e == entries[i]
             muni_coords == e.entry.data.coordinates
             distance == geodesic(lat, lon, muni_coords.lat, muni_coords.lon)
             result == ("distance_km" :> distance)
                       @@ named_copy(e.entry, rstrip_s(e.category_name))
         IN  IF is_closer(distance, closest_distance)
             THEN closest_loop(entries, i + 1, lat, lon, Some(result), Some(distance))
             ELSE closest_loop(entries, i + 1, lat, lon,
                               closest_municipality, closest_distance)

_find_by_coordinates(lat, lon) ==
    closest_loop(all_entries(1), 1, lat, lon, None, None)

\* The bands of the township/range heuristic, in the order of the if/elif chain.
bands ==
    <<[name |-> "Red Deer", lo |-> 40, hi |-> 50],
      [name |-> "Edmonton", lo |-> 50, hi |-> 60],
      [name |-> "Athabasca", lo |-> 60, hi |-> 70]>>

\* A variant of in_band that does not look at the range.
in_band_any_range(township_int, range_int, lo, hi) ==
    lo <= township_int /\ township_int <= hi

\* The condition of a band.
in_band(township_int, range_int, lo, hi) ==
    lo <= township_int /\ township_int <= hi /\ 20 <= range_int /\ range_int <= 30

RECURSIVE first_band(_, _, _)
\* The if/elif chain from band i on: the lookup of the first band whose
\* condition holds.
first_band(township_int, range_int, i) ==
    IF i > Len(bands) THEN None
    ELSE IF in_band(township_int, range_int, bands[i].lo, bands[i].hi)
         THEN _find_by_name(bands[i].name)
         ELSE first_band(township_int, range_int, i + 1)

_find_by_legal_description(legal_desc) ==
    IF legal_desc.type \in {"quarter_section", "section"}
    THEN first_band(int(legal_desc.components.township),
                    int(legal_desc.components.range), 1)
    ELSE None

RECURSIVE location_hints_from(_, _)
\* The loop of _extract_location_hints from word i on.
location_hints_from(words, i) ==
    IF i > Len(words) THEN <<>>
    ELSE LET word == words[i]
             pair == IF i < Len(words) /\ CharAt(words[i + 1], 1) \in UpperLetters
                     THEN <<word \o " " \o words[i + 1]>> ELSE <<>>
         IN  (IF CharAt(word, 1) \in UpperLetters /\ Len(word) > 3
              THEN <<word>> \o pair ELSE <<>>)
             \o location_hints_from(words, i + 1)

_extract_location_hints(text) == location_hints_from(split(text), 1)

RECURSIVE first_by_name(_, _)
\* for hint in hints: the first hint _find_by_name resolves, from hint i on.
first_by_name(hints, i) ==
    IF i > Len(hints) THEN None
    ELSE LET municipality == _find_by_name(hints[i])
         IN  IF municipality # None THEN municipality
             ELSE first_by_name(hints, i + 1)

_find_by_address_components(address) ==
    first_by_name(_extract_location_hints(address.full_address), 1)

\* A variant of method_1 that looks up the first hint only.
method_1_first_hint_only(info) ==
    IF info.municipality_hints = <<>> THEN None
    ELSE _find_by_name(info.municipality_hints[1])

\* The four methods of find_municipality, each with the condition it runs under.
method_1(info) == first_by_name(info.municipality_hints, 1)

method_2(info) ==
    IF info.coordinates # None
    THEN _find_by_coordinates(info.coordinates[1].latitude,
                              info.coordinates[1].longitude)
    ELSE None

method_3(info) ==
    IF info.parsed_legal # None /\ info.parsed_legal[1].type # "unknown"
    THEN _find_by_legal_description(info.parsed_legal[1])
    ELSE None

method_4(info) ==
    IF info.parsed_address # None
    THEN _find_by_address_components(info.parsed_address[1])
    ELSE None

\* A variant of find_municipality that tries the coordinates before the hints.
find_municipality_coordinates_first(info) ==
    IF method_2(info) # None THEN method_2(info)
    ELSE IF method_1(info) # None THEN method_1(info)
    ELSE IF method_3(info) # None THEN method_3(info)
    ELSE method_4(info)

find_municipality(info) ==
    IF method_1(info) # None THEN method_1(info)
    ELSE IF method_2(info) # None THEN method_2(info)
    ELSE IF method_3(info) # None THEN method_3(info)
    ELSE method_4(info)

\* Code points order the characters of the names: sorted() compares by them.
CodePointOrder == " .0123456789ABCDEFGHIJKLMNOPQRSTUVWXYZabcdefghijklmnopqrstuvwxyz"

ord(c) == CHOOSE i \in 1..Len(CodePointOrder) : CharAt(CodePointOrder, i) = c

RECURSIVE str_less(_, _)
\* a < b on strings.
str_less(a, b) ==
    IF Len(b) = 0 THEN FALSE
    ELSE IF Len(a) = 0 THEN TRUE
    ELSE IF CharAt(a, 1) = CharAt(b, 1)
         THEN str_less(SubSeq(a, 2, Len(a)), SubSeq(b, 2, Len(b)))
         ELSE ord(CharAt(a, 1)) < ord(CharAt(b, 1))

RECURSIVE sorted_by_name(_)
\* sorted(municipalities, key=lambda x: x['name']): stable, by insertion.
sorted_by_name(records) ==
    IF Len(records) <= 1 THEN records
    ELSE LET last == records[Len(records)]
             front == sorted_by_name(SubSeq(records, 1, Len(records) - 1))
             before == {i \in 1..Len(front) : ~str_less(last.name, front[i].name)}
             n == Cardinality(before)
         IN  SubSeq(front, 1, n) \o <<last>> \o SubSeq(front, n + 1, Len(front))

\* get_supported_municipalities: a copy of every record, named and categorised.
get_supported_municipalities ==
    LET entries == all_entries(1)
    IN  sorted_by_name([i \in 1..Len(entries) |->
            named_copy(entries[i].entry, rstrip_s(entries[i].category_name))])

supported_services ==
    <<"Land Use Bylaw Information", "Zoning Maps", "Development Permits",
      "Subdivision Applications", "Planning Consultation">>

typical_processing_times ==
    [development_permit |-> "4-6 weeks", subdivision |-> "3-6 months",
     rezoning |-> "6-12 months"]

\* get_municipality_details: the record of _find_by_name with two more keys.
get_municipality_details(municipality_name) ==
    LET municipality == _find_by_name(municipality_name)
    IN  IF municipality = None THEN None
        ELSE Some([supported_services |-> supported_services,
                   typical_processing_times |-> typical_processing_times]
                  @@ municipality[1])

\* A variant of stored_after_copy_write for a result that is the table's own
\* dict: the keys written to the result are written to the table.
stored_after_alias_write(entry, written) ==
    [name |-> entry.name, data |-> written]

\* What the table holds for a record after "result = data.copy()" and the
\* writes to result (name, category, distance_km, ...): the copy is a dict of
\* its own, so the record as it was.
stored_after_copy_write(entry, written) == entry

\* The table after the results of `written`, each the copy of the record of
\* its name, were written to.
table_after(table, written) ==
    [i \in DOMAIN table |->
        [category_name |-> table[i].category_name,
         records |->
            [j \in DOMAIN table[i].records |->
                LET entry == table[i].records[j]
                    writes == {k \in DOMAIN written : written[k].name = entry.name}
                IN  IF writes = {} THEN entry
                    ELSE stored_after_copy_write(
                             entry,
                             written[CHOOSE k \in writes : \A l \in writes : l <= k])]]]

\* The copies a call makes and writes to, as a sequence.
copies_of(municipality) ==
    IF municipality = None THEN <<>> ELSE <<municipality[1]>>

RECURSIVE copies_loop(_, _, _, _, _)
\* The copies of the loop of _find_by_coordinates: one for each municipality
\* that is the closest so far when the loop reaches it.
copies_loop(entries, i, lat, lon, closest_distance) ==
    IF i > Len(entries) THEN <<>>
    ELSE LET e == entries[i]
             muni_coords == e.entry.data.coordinates
             distance == geodesic(lat, lon, muni_coords.lat, muni_coords.lon)
             result == ("distance_km" :> distance)
                       @@ named_copy(e.entry, rstrip_s(e.category_name))
         IN  IF is_closer(distance, closest_distance)
             THEN <<result>> \o copies_loop(entries, i + 1, lat, lon, Some(distance))
             ELSE copies_loop(entries, i + 1, lat, lon, closest_distance)

copies_by_coordinates(lat, lon) == copies_loop(all_entries(1), 1, lat, lon, None)

\* The copies find_municipality makes: those of the methods it runs.
copies_by_find_municipality(info) ==
    IF method_1(info) # None THEN copies_of(method_1(info))
    ELSE (IF info.coordinates # None
          THEN copies_by_coordinates(info.coordinates[1].latitude,
                                     info.coordinates[1].longitude)
          ELSE <<>>)
         \o (IF method_2(info) # None THEN <<>>
             ELSE IF method_3(info) # None THEN copies_of(method_3(info))
             ELSE copies_of(method_4(info)))

(***************************************************************************)
(* policy_retrieval.PolicyRetrieval                                        *)
(***************************************************************************)
\* dict.get(key, default)
get(d, key, default) == IF key \in DOMAIN d THEN d[key] ELSE default

\* property_details.get('acreage', 0), in hundredths of an acre
acreage_of(property_details) ==
    IF property_details.acreage = None THEN 0 ELSE property_details.acreage[1]

\* x in a list
InList(x, list) == \E i \in 1..Len(list) : list[i] = x

_get_typical_setbacks(zoning) ==
    IF Contains(zoning, "R1") \/ Contains(zoning, "Single Family")
    THEN [front |-> "7.5 meters", rear |-> "7.5 meters", side |-> "1.5 meters"]
    ELSE IF Contains(zoning, "RC") \/ Contains(zoning, "Rural Commercial")
    THEN [front |-> "15 meters", rear |-> "15 meters", side |-> "7.5 meters"]
    ELSE IF Contains(zoning, "RUR") \/ Contains(zoning, "Rural")
    THEN [front |-> "30 meters", rear |-> "15 meters", side |-> "15 meters"]
    ELSE [front |-> "6 meters", rear |-> "6 meters", side |-> "3 meters"]

_get_density_restrictions(zoning) ==
    IF Contains(zoning, "RC") \/ Contains(zoning, "Rural Commercial")
    THEN [maximum_site_coverage |-> "40%", maximum_floor_area_ratio |-> "0.5",
          minimum_lot_size |-> "2 hectares"]
    ELSE IF Contains(zoning, "RUR") \/ Contains(zoning, "Rural")
    THEN [maximum_site_coverage |-> "25%", minimum_lot_size |-> "2 hectares",
          maximum_dwelling_units |-> "1 per lot"]
    ELSE IF Contains(zoning, "R1")
    THEN [maximum_site_coverage |-> "35%", minimum_lot_size |-> "600 square meters",
          maximum_dwelling_units |-> "1 per lot"]
    ELSE EmptyDict

_get_height_restrictions(zoning) ==
    IF Contains(zoning, "RC") \/ Contains(zoning, "Commercial")
    THEN [maximum_height |-> "12 meters", maximum_stories |-> "3"]
    ELSE IF Contains(zoning, "RUR") \/ Contains(zoning, "Rural")
    THEN [maximum_height |-> "10 meters", maximum_stories |-> "2.5"]
    ELSE [maximum_height |-> "9 meters", maximum_stories |-> "2.5"]

\* The acreage thresholds of the zoning determination, in hundredths of an acre.
rural_commercial_acreage == 500

rural_residential_acreage == 200

\* A variant of zoning_branch that looks at the 'rural' hint and the acreage
\* before the 'commercial' hint.
zoning_branch_rural_first(acreage, zoning_hints) ==
    IF InList("rural", zoning_hints) \/ acreage > rural_residential_acreage
    THEN [zoning |-> "RUR - Rural Residential",
          permitted_uses |->
              <<"Single family dwelling", "Home occupation",
                "Agriculture (limited)", "Accessory buildings">>,
          discretionary_uses |->
              <<"Bed and breakfast", "Secondary suite", "Small scale tourism">>]
    ELSE IF InList("commercial", zoning_hints)
    THEN [zoning |-> "C2 - Community Commercial",
          permitted_uses |->
              <<"Retail stores", "Restaurants", "Offices", "Personal services">>]
    ELSE [zoning |-> "R1 - Single Family Residential",
          permitted_uses |->
              <<"Single family dwelling", "Home occupation", "Accessory buildings">>]

\* The branch of the "mock zoning determination logic": zoning, permitted_uses
\* and (two branches only) discretionary_uses.
zoning_branch(acreage, zoning_hints) ==
    IF InList("commercial", zoning_hints)
    THEN IF acreage > rural_commercial_acreage
         THEN [zoning |-> "RC - Rural Commercial",
               permitted_uses |->
                   <<"Tourist accommodation", "Recreation facilities",
                     "Small scale retail", "Restaurants", "Bed and breakfast">>,
               discretionary_uses |->
                   <<"Cottage development", "RV parks", "Event facilities",
                     "Conference centers">>]
         ELSE [zoning |-> "C2 - Community Commercial",
               permitted_uses |->
                   <<"Retail stores", "Restaurants", "Offices", "Personal services">>]
    ELSE IF InList("rural", zoning_hints) \/ acreage > rural_residential_acreage
    THEN [zoning |-> "RUR - Rural Residential",
          permitted_uses |->
              <<"Single family dwelling", "Home occupation",
                "Agriculture (limited)", "Accessory buildings">>,
          discretionary_uses |->
              <<"Bed and breakfast", "Secondary suite", "Small scale tourism">>]
    ELSE [zoning |-> "R1 - Single Family Residential",
          permitted_uses |->
              <<"Single family dwelling", "Home occupation", "Accessory buildings">>]

\* Whether the zoning determination raises: it compares the acreage with 5
\* when 'commercial' is a hint and with 2 when neither 'commercial' nor 'rural'
\* is one, and the comparison of a str with a number is a TypeError.
zoning_comparison_raises(info) ==
    LET property_details == info.property_details
    IN  /\ is_str(property_details.acreage)
        /\ \/ InList("commercial", property_details.zoning_hints)
           \/ ~InList("rural", property_details.zoning_hints)

\* The zoning_info dict (municipality_info is read for its name only, which is
\* not used).
_get_zoning_information(municipality, info) ==
    LET property_details == info.property_details
        acreage == acreage_of(property_details)
        zoning_hints == property_details.zoning_hints
        zoning_info == zoning_branch(acreage, zoning_hints)
    IN  [setbacks |-> _get_typical_setbacks(zoning_info.zoning),
         density_restrictions |-> _get_density_restrictions(zoning_info.zoning),
         height_restrictions |-> _get_height_restrictions(zoning_info.zoning)]
        @@ zoning_info

bylaw_sections ==
    <<[section |-> "1", title |-> "Definitions and General Provisions"],
      [section |-> "2", title |-> "Zoning Districts"],
      [section |-> "3", title |-> "General Regulations"],
      [section |-> "4", title |-> "Development Permits"],
      [section |-> "5", title |-> "Subdivision"]>>

\* None when the municipality has no land_use_bylaw.
_get_bylaw_information(municipality) ==
    IF get(municipality, "land_use_bylaw", "") = "" THEN None
    ELSE Some([url |-> municipality.land_use_bylaw,
               title |-> get(municipality, "name", "") \o " Land Use Bylaw",
               sections |-> bylaw_sections])

\* zoning: None or the zoning string.
_get_development_requirements(municipality, zoning) ==
    <<"Development permit required", "Building permit required",
      "Compliance with Alberta Building Code">>
    \o (IF zoning # None /\ Contains(lower(zoning[1]), "commercial")
        THEN <<"Site plan approval required", "Parking plan submission",
               "Landscaping plan required", "Signage approval needed">>
        ELSE <<>>)
    \o (IF zoning # None /\ Contains(lower(zoning[1]), "rural")
        THEN <<"Septic system approval (if applicable)",
               "Water well testing (if applicable)",
               "Environmental assessment may be required",
               "Agricultural impact assessment">>
        ELSE <<>>)
    \o (IF Contains(get(municipality, "name", ""), "County")
        THEN <<"County road access approval", "Fire protection plan",
               "Waste management plan">>
        ELSE <<>>)

\* A variant of hash under which every record collides.
hash_colliding(info) == 0

\* hash(str(property_info)): the record stands for its own hash (no two
\* records of the model collide).
hash(info) == info

\* f"{municipality_name}_{hash(str(property_info))}"
cache_key(municipality, info) ==
    [municipality_name |-> get(municipality, "name", ""), hash |-> hash(info)]

\* The policy_info dict as first built, before the try block.
blank_policy(municipality, now) ==
    [municipality |-> get(municipality, "name", ""),
     zoning |-> None,
     land_use_bylaw |-> None,
     permitted_uses |-> <<>>,
     discretionary_uses |-> <<>>,
     setbacks |-> EmptyDict,
     density_restrictions |-> EmptyDict,
     height_restrictions |-> EmptyDict,
     special_provisions |-> <<>>,
     development_requirements |-> <<>>,
     contact_info |-> get(municipality, "contact_info", EmptyDict),
     bylaw_links |-> <<>>,
     last_updated |-> now]

\* The try block of get_land_use_policies: policy_info.update(zoning_info),
\* then the bylaw and the development requirements.
computed_policy(municipality, info, now) ==
    LET zoning_info == _get_zoning_information(municipality, info)
        updated == [zoning_info EXCEPT !.zoning = Some(@)]
                   @@ blank_policy(municipality, now)
        bylaw_info == _get_bylaw_information(municipality)
        dev_requirements == _get_development_requirements(municipality, updated.zoning)
    IN  [updated EXCEPT !.land_use_bylaw = bylaw_info,
                        !.development_requirements = dev_requirements]

\* A variant of cache_hit for a cache that is never consulted.
cache_never_hit(cache, key) == FALSE

\* Whether the cache answers the call.
cache_hit(cache, key) == key \in DOMAIN cache

\* The policy_info dict the except clause returns when the zoning
\* determination raised: the dict as first built, with the error (str(e) is
\* the message of the TypeError).
failed_policy(municipality, now) ==
    ("error" :> ("Error retrieving policy information: "
                 \o "'>' not supported between instances of 'str' and 'int'"))
        @@ blank_policy(municipality, now)

\* A variant of get_land_use_policies that stores the record of a failed
\* computation too.
get_land_use_policies_caching_failures(cache, municipality, info, now) ==
    LET key == cache_key(municipality, info)
        policy == IF zoning_comparison_raises(info)
                  THEN failed_policy(municipality, now)
                  ELSE computed_policy(municipality, info, now)
    IN  IF cache_hit(cache, key)
        THEN [policy_info |-> cache[key], cache |-> cache]
        ELSE [policy_info |-> policy, cache |-> (key :> policy) @@ cache]

\* get_land_use_policies: the record it returns and the cache it leaves.
get_land_use_policies(cache, municipality, info, now) ==
    LET key == cache_key(municipality, info)
        policy == computed_policy(municipality, info, now)
    IN  IF cache_hit(cache, key)
        THEN [policy_info |-> cache[key], cache |-> cache]
        ELSE IF zoning_comparison_raises(info)
        THEN [policy_info |-> failed_policy(municipality, now), cache |-> cache]
        ELSE [policy_info |-> policy, cache |-> (key :> policy) @@ cache]

\* The acreage from which the cottage calculation runs, in hundredths.
cottage_min_acreage == 1400

next_steps ==
    <<"Schedule pre-application meeting with planning department",
      "Obtain detailed zoning map and bylaw review",
      "Conduct environmental site assessment",
      "Verify utility capacity and availability",
      "Consult with development engineer",
      "Prepare preliminary site plan">>

\* A variant of cottage_branch whose calculation starts above 14 acres only.
cottage_branch_above_minimum(zoning, density_restrictions, acreage) ==
    LET developable_area == acreage * 4
        potential_cottages == (developable_area * 45) \div 10000
    IN  [feasibility |->
             IF Contains(zoning, "Rural Commercial") \/ Contains(zoning, "RC")
             THEN "High"
             ELSE IF Contains(zoning, "Rural") THEN "Moderate" ELSE "Low",
         cottage_potential |->
             IF /\ Contains(zoning, "Rural Commercial") \/ Contains(zoning, "RC")
                /\ acreage > cottage_min_acreage
                /\ Contains(get(density_restrictions, "maximum_site_coverage", "40%"),
                            "40%")
             THEN [total_acreage |-> acreage,
                   developable_acreage |-> developable_area,
                   estimated_cottage_units |-> potential_cottages,
                   phased_development |-> TRUE,
                   recommended_phase_1 |-> Min(5, potential_cottages)]
             ELSE EmptyDict,
         regulatory_considerations |-> <<>>]

\* A variant of cottage_branch whose calculation runs on any acreage.
cottage_branch_any_acreage(zoning, density_restrictions, acreage) ==
    LET max_coverage == get(density_restrictions, "maximum_site_coverage", "40%")
        potential_cottages == (acreage * 4 * 45) \div 10000
    IN  [feasibility |->
             IF Contains(zoning, "Rural Commercial") \/ Contains(zoning, "RC")
             THEN "High"
             ELSE IF Contains(zoning, "Rural") THEN "Moderate" ELSE "Low",
         cottage_potential |->
             IF /\ Contains(zoning, "Rural Commercial") \/ Contains(zoning, "RC")
                /\ Contains(max_coverage, "40%")
             THEN [total_acreage |-> acreage,
                   developable_acreage |-> acreage * 4,
                   estimated_cottage_units |-> potential_cottages,
                   phased_development |-> TRUE,
                   recommended_phase_1 |-> Min(5, potential_cottages)]
             ELSE EmptyDict,
         regulatory_considerations |-> <<>>]

\* A variant of cottage_branch that tests 'Rural' before 'Rural Commercial'.
cottage_branch_rural_first(zoning, density_restrictions, acreage) ==
    [feasibility |->
         IF Contains(zoning, "Rural") THEN "Moderate"
         ELSE IF Contains(zoning, "RC") THEN "High" ELSE "Low",
     cottage_potential |-> EmptyDict,
     regulatory_considerations |-> <<>>]

\* The analysis dict of get_cottage_development_analysis for a zoning string.
\* developable_acreage is in thousandths of an acre (acreage * 0.4).
cottage_branch(zoning, density_restrictions, acreage) ==
    LET max_coverage == get(density_restrictions, "maximum_site_coverage", "40%")
        developable_area == acreage * 4
        potential_cottages == (developable_area * 45) \div 10000
        computed ==
            [total_acreage |-> acreage,
             developable_acreage |-> developable_area,
             estimated_cottage_units |-> potential_cottages,
             phased_development |-> TRUE,
             recommended_phase_1 |-> Min(5, potential_cottages)]
    IN  IF Contains(zoning, "Rural Commercial") \/ Contains(zoning, "RC")
        THEN [feasibility |-> "High",
              cottage_potential |->
                  IF acreage >= cottage_min_acreage /\ Contains(max_coverage, "40%")
                  THEN computed ELSE EmptyDict,
              regulatory_considerations |->
                  <<"Tourist accommodation is typically permitted use",
                    "Development permit required for each phase",
                    "Site plan approval needed",
                    "Septic system capacity assessment required",
                    "Water supply adequacy verification needed",
                    "Fire access and safety plan required">>]
        ELSE IF Contains(zoning, "Rural")
        THEN [feasibility |-> "Moderate",
              cottage_potential |-> EmptyDict,
              regulatory_considerations |->
                  <<"May require rezoning to Rural Commercial",
                    "Discretionary use application may be possible",
                    "Bed and breakfast operations typically allowed",
                    "Small scale tourism may be permitted">>]
        ELSE [feasibility |-> "Low",
              cottage_potential |-> EmptyDict,
              regulatory_considerations |->
                  <<"Rezoning likely required",
                    "Commercial use not typically permitted",
                    "Significant regulatory hurdles expected">>]

\* get_cottage_development_analysis: 'in' on a zoning of None raises TypeError.
get_cottage_development_analysis(policy, property_details) ==
    IF policy.zoning = None THEN Raised
    ELSE Return(Some([next_steps |-> next_steps]
                     @@ cottage_branch(policy.zoning[1],
                                       get(policy, "density_restrictions", EmptyDict),
                                       acreage_of(property_details))))

(***************************************************************************)
(* app: analyze_property and _generate_feasibility_summary                 *)
(***************************************************************************)
\* A variant of parse_failed that also refuses a record without coordinates.
parse_failed_or_unlocated(parsed) ==
    parsed.value = None \/ parsed.value[1].coordinates = None

\* "if not property_info": the parser gave no record.
parse_failed(parsed) == parsed.value = None

\* "if not municipality_info": the lookup gave no municipality.
not_found(municipality) == municipality = None

\* A variant of queries_sent that asks the provider again after a failure.
queries_sent_with_retry(address, outcome) ==
    LET query == [query |-> full_address_query(address), outcome |-> outcome]
    IN  IF address = "" THEN <<>>
        ELSE IF outcome.kind \in {"timeout", "service_error"}
        THEN <<query, query>>
        ELSE <<query>>

\* The geolocator.geocode calls one parse_property_info makes, each with what
\* the provider did: one, under "if address", whatever the provider then does.
queries_sent(address, outcome) ==
    IF address # ""
    THEN <<[query |-> full_address_query(address), outcome |-> outcome]>>
    ELSE <<>>

\* A variant of development_potential that tests 'agricultural' and 'rural'
\* before 'residential' and 'commercial'.
development_potential_rural_first(policy) ==
    IF policy.zoning = None \/ policy.zoning[1] = "" THEN "Unknown"
    ELSE LET zoning == lower(policy.zoning[1])
         IN  IF \E term \in {"agricultural", "rural"} : Contains(zoning, term)
             THEN "Moderate"
             ELSE IF \E term \in {"residential", "commercial", "mixed"} :
                         Contains(zoning, term)
             THEN "High"
             ELSE "Low"

\* development_potential of _generate_feasibility_summary.
development_potential(policy) ==
    IF policy.zoning = None \/ policy.zoning[1] = "" THEN "Unknown"
    ELSE LET zoning == lower(policy.zoning[1])
         IN  IF \E term \in {"residential", "commercial", "mixed"} :
                    Contains(zoning, term)
             THEN "High"
             ELSE IF \E term \in {"agricultural", "rural"} : Contains(zoning, term)
             THEN "Moderate"
             ELSE "Low"

(***************************************************************************)
(* The inputs of the model                                                 *)
(***************************************************************************)
\* Requests answered before the model stops taking new ones.
MaxRequests == 2

\* The last second of the wall clock.
MaxClock == 1

\* Direct calls of get_land_use_policies in one behaviour.
MaxPolicyCalls == 3

\* Query points: Red Deer itself, a point 49.9 km and one 50.0 km south of it,
\* Pigeon Lake, Edmonton itself, a point between Wetaskiwin and Camrose,
\* Athabasca County's seat, Calgary.
PointLats == {522681, 518189, 518188, 530300, 535461, 530000, 545000, 510500}

PointLons == {-1138112, -1140000, -1134938, -1131000, -1130000, -1125000}

\* Where the provider places an address in the requests of the entry point.
ProviderPoints ==
    {[lat |-> 522681, lon |-> -1138112], [lat |-> 510500, lon |-> -1140000]}

Outcomes(points) ==
    {Located(p.lat, p.lon) : p \in points}
        \cup {NoLocation, TimedOut, ServiceError, OtherFailure}

\* The provider is queried for a non-empty address only.
OutcomesFor(address, points) ==
    IF address = "" THEN {NoLocation} ELSE Outcomes(points)

Req(address, legal_description, additional_info) ==
    [address |-> address, legal_description |-> legal_description,
     additional_info |-> additional_info]

NoRequest == Req("", "", "")

\* The requests the entry point is sent.
Requests ==
    {Req("", "", ""),
     Req("Lacombe", "", ""),
     Req("Pigeon Lake", "SW 14-45-25-W4", "20 acres commercial"),
     Req("xyz", "", ""),
     Req("", "", "14.55 acre rural commercial")}

\* The texts of the direct calls.
Addresses ==
    {"", "Lacombe", "Pigeon Lake", "xyz", "Leduc  County",
     "123 Main St, Red Deer", "RR 2 Camrose County", "T4N 3T4",
     "Ponoka County"}

LegalDescriptions ==
    {"", "SW 14-45-25-W4", "NE 5-55-22-W4", "SE 1-50-25-W4",
     "SECTION 14 TOWNSHIP 65 RANGE 22 W4", "LOT 1 BLOCK 2 PLAN 123",
     "NW 3-10-5-W4", "north half"}

AdditionalInfos ==
    {"", "14.55 acre rural commercial", "near Edmonton, not Red Deer", "nothing"}

\* Townships and ranges as the descriptions write them: the ends of the bands,
\* their neighbours and values inside.
Townships == {"39", "40", "45", "50", "51", "55", "60", "61", "65", "70", "71"}

Ranges == {"19", "20", "25", "30", "31"}

\* Legal descriptions of every type: quarter sections and sections over the
\* townships and ranges, a lot, a parcel, and texts no pattern matches.
LegalTexts ==
    {"SW 14-" \o township \o "-" \o range \o "-W4" :
        township \in Townships, range \in Ranges}
    \cup {"SECTION 14 TOWNSHIP " \o township \o " RANGE " \o range \o " W4" :
             township \in Townships, range \in Ranges}
    \cup {"LOT 1 BLOCK 2 PLAN 123", "PARCEL A PLAN 456", "north half", "section 9"}

\* Addresses the street and the rural pattern both match, and addresses with a
\* postal code.
MixedAddresses ==
    {"123 Main St, RR 2 Lacombe", "51234 Range Road 245",
     "12 Highway 2 Road T4N 3T4", "123 Main St T4N 3T4", "t4n 3t4",
     "RR 2 Camrose County T9A 1B2", "T4N3T4", "t4n  3T4", "T4N\t3T4"}

\* Legal descriptions more than one pattern matches, the later pattern of the
\* order standing first in the text, and descriptions with text around them.
MixedLegalTexts ==
    {"LOT 1 BLOCK 2 PLAN 123 SW 14-45-25-W4",
     "PARCEL A PLAN 456, LOT 7 BLOCK 8 PLAN 9",
     "SECTION 14 TOWNSHIP 45 RANGE 25 W4 PARCEL B PLAN 77",
     "SECTION 9, TOWNSHIP 61, RANGE 22, W4 and NE 5-55-22-W4",
     "lot 3, block 4, plan 5a", "  the parcel C plan 8 ", "SECTION 14"}

\* The names of the table.
TableNames ==
    {cities_table[i].name : i \in DOMAIN cities_table}
        \cup {counties_table[i].name : i \in DOMAIN counties_table}

\* The names looked up: every name of the table as it is written, in lower and
\* in upper case, and texts that are no name of it.
Names ==
    TableNames \cup {lower(n) : n \in TableNames} \cup {upper(n) : n \in TableNames}
        \cup {"", "Deer", "Pigeon Lake", "County of Wetaskiwin",
              "Edmonton Strathcona County"}

\* Acreages in hundredths (None: no acreage found) and zoning hints, as
\* _extract_property_details lists them.
Acreages ==
    {None, Some(0), Some(100), Some(200), Some(201), Some(500), Some(501),
     Some(1399), Some(1400), Some(1455), Some(1500), Some(2000), Some(10000)}

ZoningHintLists ==
    {<<>>, <<"commercial">>, <<"rural">>, <<"commercial", "rural">>,
     <<"residential">>, <<"commercial", "residential", "rural">>,
     <<"agricultural", "industrial">>, <<"residential", "rural">>}

Details(acreage, zoning_hints) ==
    [acreage |-> acreage, zoning_hints |-> zoning_hints,
     development_intentions |-> <<>>, infrastructure_mentions |-> <<>>]

\* The arguments of the direct calls of get_land_use_policies: a city and a
\* county as the lookup returns them, and property details with an acreage of
\* 20 given as a number or as the str '20'.
PolicyMunicipalities ==
    {named_copy(cities_table[1], "city"), named_copy(counties_table[1], "county")}

PolicyInfos ==
    {[property_details |-> Details(acreage, zoning_hints)] :
        acreage \in {Some(2000), Str("20")},
        zoning_hints \in {<<"commercial">>, <<"rural">>}}

\* Zoning strings: the four of the engine, and codes of zoning_categories.
Zonings ==
    {"RC - Rural Commercial", "C2 - Community Commercial",
     "RUR - Rural Residential", "R1 - Single Family Residential",
     "AG - Agricultural", "CR - Country Residential", "Rural Commercial",
     "DC - Direct Control"}

\* density_restrictions dicts: those of the engine, and other coverages.
Densities ==
    {_get_density_restrictions(z) : z \in Zonings}
        \cup {[maximum_site_coverage |-> c] : c \in {"40%", "30%", "140%"}}

(***************************************************************************)
(* The state machine                                                       *)
(***************************************************************************)
NoCall == [op |-> "none"]

Init ==
    /\ municipalities_data = MunicipalitiesTable
    /\ policy_cache = EmptyDict
    /\ pc = "idle"
    /\ request = NoRequest
    /\ provider_log = <<>>
    /\ property_info = Return(None)
    /\ municipality_info = None
    /\ policy_info = None
    /\ response = 0
    /\ stages = <<>>
    /\ cache_at_entry = EmptyDict
    /\ served = 0
    /\ clock = 0
    /\ call = NoCall

\* analyze_property up to the check of the parser's result.
Parse(req, outcome) ==
    LET parsed == parse_property_info(req.address, req.legal_description,
                                      req.additional_info, outcome)
    IN  /\ pc = "idle"
        /\ served < MaxRequests
        /\ request' = req
        /\ provider_log' = queries_sent(req.address, outcome)
        /\ property_info' = parsed
        /\ stages' = <<"parse_property_info">>
        /\ cache_at_entry' = policy_cache
        /\ IF parsed.raised THEN response' = 500 /\ pc' = "done"
           ELSE IF parse_failed(parsed) THEN response' = 400 /\ pc' = "done"
           ELSE response' = 0 /\ pc' = "resolve"
        /\ UNCHANGED <<municipalities_data, policy_cache, municipality_info,
                       policy_info, served, clock, call>>

\* analyze_property from the lookup to the check of its result.
Resolve ==
    LET municipality == find_municipality(property_info.value[1])
    IN  /\ pc = "resolve"
        /\ municipality_info' = municipality
        /\ municipalities_data' =
               table_after(municipalities_data,
                           copies_by_find_municipality(property_info.value[1]))
        /\ stages' = Append(stages, "find_municipality")
        /\ IF not_found(municipality) THEN response' = 404 /\ pc' = "done"
           ELSE response' = 0 /\ pc' = "policy"
        /\ UNCHANGED <<policy_cache, request, provider_log,
                       property_info, policy_info, cache_at_entry, served,
                       clock, call>>

\* analyze_property from the policy retrieval to the response.
Policy ==
    LET got == get_land_use_policies(policy_cache, municipality_info[1],
                                     property_info.value[1], clock)
    IN  /\ pc = "policy"
        /\ policy_info' = Some(got.policy_info)
        /\ policy_cache' = got.cache
        /\ stages' = Append(stages, "get_land_use_policies")
        /\ response' = 200
        /\ pc' = "done"
        /\ UNCHANGED <<municipalities_data, request, provider_log, property_info,
                       municipality_info, cache_at_entry, served, clock, call>>

\* The response is sent; the next request finds nothing of this one but the cache.
Respond ==
    /\ pc = "done"
    /\ pc' = "idle"
    /\ served' = served + 1
    /\ request' = NoRequest
    /\ provider_log' = <<>>
    /\ property_info' = Return(None)
    /\ municipality_info' = None
    /\ policy_info' = None
    /\ response' = 0
    /\ stages' = <<>>
    /\ cache_at_entry' = policy_cache
    /\ UNCHANGED <<municipalities_data, policy_cache, clock, call>>

\* A second passes between two requests.
Tick ==
    /\ pc = "idle"
    /\ clock < MaxClock
    /\ clock' = clock + 1
    /\ UNCHANGED <<municipalities_data, policy_cache, pc, request, provider_log,
                   property_info, municipality_info, policy_info, response,
                   stages, cache_at_entry, served, call>>

Next ==
    \/ \E req \in Requests :
         \E outcome \in OutcomesFor(req.address, ProviderPoints) : Parse(req, outcome)
    \/ Resolve
    \/ Policy
    \/ Respond
    \/ Tick

Spec == Init /\ [][Next]_vars

(***************************************************************************)
(* Direct calls of the library's functions, each on inputs of its own, from *)
(* the state after construction; find_municipality follows the parse that  *)
(* made its record.                                                        *)
(***************************************************************************)
request_vars ==
    <<policy_cache, pc, request, provider_log, property_info, municipality_info,
      policy_info, response, stages, cache_at_entry, served, clock>>

pipeline_vars == <<municipalities_data, request_vars>>

ParseCall(address, legal_description, additional_info, outcome) ==
    /\ call = NoCall
    /\ call' = [op |-> "parse_property_info",
                address |-> address, legal_description |-> legal_description,
                additional_info |-> additional_info, outcome |-> outcome,
                result |-> parse_property_info(address, legal_description,
                                               additional_info, outcome)]
    /\ UNCHANGED pipeline_vars

\* find_municipality on the record the parser just returned.
FindMunicipalityCall ==
    /\ call.op = "parse_property_info"
    /\ ~call.result.raised
    /\ call.result.value # None
    /\ call' = [op |-> "find_municipality", info |-> call.result.value[1],
                result |-> find_municipality(call.result.value[1])]
    /\ municipalities_data' =
           table_after(municipalities_data,
                       copies_by_find_municipality(call.result.value[1]))
    /\ UNCHANGED request_vars

FindByCoordinatesCall(lat, lon) ==
    /\ call = NoCall
    /\ call' = [op |-> "_find_by_coordinates", lat |-> lat, lon |-> lon,
                result |-> _find_by_coordinates(lat, lon)]
    /\ municipalities_data' =
           table_after(municipalities_data, copies_by_coordinates(lat, lon))
    /\ UNCHANGED request_vars

ParseAddressCall(address) ==
    /\ call = NoCall
    /\ call' = [op |-> "_parse_address", address |-> address,
                result |-> _parse_address(address)]
    /\ UNCHANGED pipeline_vars

ParseLegalDescriptionCall(legal_desc) ==
    /\ call = NoCall
    /\ call' = [op |-> "_parse_legal_description", legal_desc |-> legal_desc,
                result |-> _parse_legal_description(legal_desc)]
    /\ UNCHANGED pipeline_vars

\* _find_by_legal_description on the parse of a legal description.
FindByLegalDescriptionCall(text) ==
    LET legal_desc == _parse_legal_description(text)
    IN  /\ call = NoCall
        /\ call' = [op |-> "_find_by_legal_description", text |-> text,
                    legal_desc |-> legal_desc,
                    result |-> _find_by_legal_description(legal_desc)]
        /\ municipalities_data' =
               table_after(municipalities_data,
                           copies_of(_find_by_legal_description(legal_desc)))
        /\ UNCHANGED request_vars

FindByNameCall(name) ==
    /\ call = NoCall
    /\ call' = [op |-> "_find_by_name", name |-> name,
                result |-> _find_by_name(name)]
    /\ municipalities_data' =
           table_after(municipalities_data, copies_of(_find_by_name(name)))
    /\ UNCHANGED request_vars

GetSupportedMunicipalitiesCall ==
    /\ call = NoCall
    /\ call' = [op |-> "get_supported_municipalities",
                result |-> get_supported_municipalities]
    /\ municipalities_data' =
           table_after(municipalities_data, get_supported_municipalities)
    /\ UNCHANGED request_vars

GetMunicipalityDetailsCall(municipality_name) ==
    /\ call = NoCall
    /\ call' = [op |-> "get_municipality_details",
                municipality_name |-> municipality_name,
                result |-> get_municipality_details(municipality_name)]
    /\ municipalities_data' =
           table_after(municipalities_data,
                       copies_of(get_municipality_details(municipality_name)))
    /\ UNCHANGED request_vars

ZoningCall(acreage, zoning_hints) ==
    LET info == [property_details |-> Details(acreage, zoning_hints)]
    IN  /\ call = NoCall
        /\ call' = [op |-> "_get_zoning_information", info |-> info,
                    result |-> _get_zoning_information(
                                   named_copy(cities_table[1], "city"), info)]
        /\ UNCHANGED pipeline_vars

CottageCall(zoning, density_restrictions, acreage) ==
    LET policy == [zoning |-> zoning, density_restrictions |-> density_restrictions]
        property_details == Details(acreage, <<>>)
    IN  /\ call = NoCall
        /\ call' = [op |-> "get_cottage_development_analysis",
                    policy_info |-> policy, property_details |-> property_details,
                    result |-> get_cottage_development_analysis(policy,
                                                               property_details)]
        /\ UNCHANGED pipeline_vars

\* get_land_use_policies called directly, one call after the other on the same
\* engine, a second apart; call.earlier holds the calls before this one.
GetLandUsePoliciesCall(municipality, info) ==
    LET got == get_land_use_policies(policy_cache, municipality, info, clock)
    IN  /\ call = NoCall \/ call.op = "get_land_use_policies"
        /\ clock < MaxPolicyCalls
        /\ call' = [op |-> "get_land_use_policies",
                    municipality_info |-> municipality, property_info |-> info,
                    cache_before |-> policy_cache,
                    earlier |-> IF call = NoCall THEN {}
                                ELSE call.earlier \cup
                                     {[municipality_info |-> call.municipality_info,
                                       property_info |-> call.property_info,
                                       result |-> call.result]},
                    result |-> got.policy_info]
        /\ policy_cache' = got.cache
        /\ clock' = clock + 1
        /\ UNCHANGED <<municipalities_data, pc, request, provider_log, property_info,
                       municipality_info, policy_info, response, stages,
                       cache_at_entry, served>>

NextCalls ==
    \/ \E address \in Addresses, legal_description \in LegalDescriptions,
          additional_info \in AdditionalInfos :
         \E outcome \in OutcomesFor(address, ProviderPoints) :
            ParseCall(address, legal_description, additional_info, outcome)
    \/ FindMunicipalityCall
    \/ \E lat \in PointLats, lon \in PointLons : FindByCoordinatesCall(lat, lon)
    \/ \E address \in Addresses \cup MixedAddresses : ParseAddressCall(address)
    \/ \E legal_desc \in LegalDescriptions \cup MixedLegalTexts :
         ParseLegalDescriptionCall(legal_desc)
    \/ \E text \in LegalTexts : FindByLegalDescriptionCall(text)
    \/ \E name \in Names : FindByNameCall(name)
    \/ GetSupportedMunicipalitiesCall
    \/ \E municipality_name \in Names : GetMunicipalityDetailsCall(municipality_name)
    \/ \E acreage \in Acreages, zoning_hints \in ZoningHintLists :
         ZoningCall(acreage, zoning_hints)
    \/ \E zoning \in {None} \cup {Some(z) : z \in Zonings},
          density_restrictions \in Densities, acreage \in Acreages :
         CottageCall(zoning, density_restrictions, acreage)
    \/ \E municipality \in PolicyMunicipalities, info \in PolicyInfos :
         GetLandUsePoliciesCall(municipality, info)

SpecCalls == Init /\ [][NextCalls]_vars

(***************************************************************************)
(* The properties                                                          *)
(***************************************************************************)
\* The municipalities of the table with their distance from a point.
distances_from(lat, lon) ==
    LET entries == all_entries(1)
    IN  [i \in 1..Len(entries) |->
            geodesic(lat, lon, entries[i].entry.data.coordinates.lat,
                     entries[i].entry.data.coordinates.lon)]

\* C1: find_municipality returns the result of the first of its four
\* strategies (name hints, coordinates, legal description, address components)
\* that yields a record; when the hints and the coordinates name different
\* municipalities the result is the one of the hints; the result is null only
\* when all four strategies yield nothing.
C1_StrategyOrder ==
    call.op = "find_municipality" =>
        LET info == call.info
            results == <<method_1(info), method_2(info), method_3(info),
                         method_4(info)>>
            yielding == {i \in 1..4 : results[i] # None}
            first == CHOOSE i \in yielding : \A j \in yielding : i <= j
        IN  /\ (call.result = None) <=> (yielding = {})
            /\ yielding # {} => call.result = results[first]
            /\ (results[1] # None /\ results[2] # None)
                   => call.result[1].name = results[1][1].name

\* A record whose hint names Lacombe and whose coordinates are Red Deer's: the
\* result is Lacombe.
C1_Witness ==
    /\ call.op = "find_municipality"
    /\ method_1(call.info) # None
    /\ method_2(call.info) # None
    /\ method_1(call.info)[1].name # method_2(call.info)[1].name
    /\ call.result # None
    /\ call.result[1].name = method_1(call.info)[1].name

\* C2: the municipality _find_by_coordinates returns is less than 50 km from
\* the query point, and the result is null exactly when no municipality of the
\* table is closer than 50 km.
C2_WithinFiftyKilometres ==
    call.op = "_find_by_coordinates" =>
        LET distances == distances_from(call.lat, call.lon)
            near == {i \in DOMAIN distances : distances[i] < proximity_limit}
        IN  /\ (call.result = None) <=> (near = {})
            /\ call.result # None =>
                   /\ call.result[1].distance_km < proximity_limit
                   /\ call.result[1].distance_km =
                          geodesic(call.lat, call.lon,
                                   call.result[1].coordinates.lat,
                                   call.result[1].coordinates.lon)
                   /\ \A i \in DOMAIN distances :
                          call.result[1].distance_km <= distances[i]

\* A point with a municipality exactly 50 km away and none closer: null.
C2_Witness ==
    /\ call.op = "_find_by_coordinates"
    /\ call.result = None
    /\ \E i \in DOMAIN distances_from(call.lat, call.lon) :
           distances_from(call.lat, call.lon)[i] = proximity_limit

\* The signals of a record other than its raw text.
has_typed_signal(info) ==
    \/ info.parsed_address # None /\ info.parsed_address[1].type # "unknown"
    \/ info.parsed_legal # None /\ info.parsed_legal[1].type # "unknown"
    \/ info.coordinates # None
    \/ Len(info.municipality_hints) > 0
    \/ details_len(info.property_details) > 0

stage_order == <<"parse_property_info", "find_municipality", "get_land_use_policies">>

\* C4: the stages of the entry point run in the order parse, resolve, policy
\* retrieval; the lookup runs only on a record, the policy retrieval only on a
\* municipality; a parse without a record is answered 400, a null lookup 404,
\* and neither answer leaves the policy cache other than the request found it.
C4_StagesInOrder ==
    /\ Len(stages) <= Len(stage_order)
    /\ stages = SubSeq(stage_order, 1, Len(stages))
    /\ Len(stages) >= 2 => (~property_info.raised /\ property_info.value # None)
    /\ Len(stages) >= 3 => municipality_info # None
    /\ (pc = "done" /\ ~property_info.raised /\ property_info.value = None)
           => response = 400
    /\ (pc = "done" /\ Len(stages) = 2) => (municipality_info = None /\ response = 404)
    /\ response = 400 =>
           /\ ~property_info.raised /\ property_info.value = None
           /\ stages = SubSeq(stage_order, 1, 1)
           /\ policy_cache = cache_at_entry
    /\ response = 404 =>
           /\ municipality_info = None
           /\ stages = SubSeq(stage_order, 1, 2)
           /\ policy_cache = cache_at_entry

\* A request answered 404 after an earlier one filled the cache.
C4_Witness ==
    /\ pc = "done"
    /\ response = 404
    /\ stages = SubSeq(stage_order, 1, 2)
    /\ policy_cache # EmptyDict
    /\ policy_cache = cache_at_entry

\* C5: no exception leaves a public entry point, whatever the geocoding
\* provider does.  find_municipality and get_land_use_policies have no path
\* that raises and analyze_property answers every exception with an HTTP
\* outcome, so the statement comes down to parse_property_info, whose call in
\* the entry point must never end in a raised exception.
C5_NoExceptionEscapes == ~property_info.raised

\* C6: when the provider times out or reports a service error,
\* _geocode_address returns no coordinates and parse_property_info returns what
\* it returns when the provider finds no location: the same record, its
\* coordinates absent.
C6_FailureAbsorbed ==
    (call.op = "parse_property_info" /\ call.address # ""
        /\ call.outcome \in {TimedOut, ServiceError})
    => /\ _geocode_address(call.address, call.outcome) = Return(None)
       /\ call.result =
              Return(Some(build_property_info(call.address, call.legal_description,
                                              call.additional_info, None)))
       /\ call.result.value[1].coordinates = None
       /\ call.result = parse_property_info(call.address, call.legal_description,
                                            call.additional_info, NoLocation)

\* A service error on an address with a legal description: a record without
\* coordinates, its legal description parsed.
C6_Witness ==
    /\ call.op = "parse_property_info"
    /\ call.outcome = ServiceError
    /\ call.result.value # None
    /\ call.result.value[1].coordinates = None
    /\ call.result.value[1].parsed_legal # None
    /\ call.result.value[1].parsed_legal[1].type = "quarter_section"

\* C7: a request sends the provider at most one query, none when its address is
\* empty, one and no second one when the provider timed out or reported an
\* error, and the stages after the parse send none.
C7_OneQueryNoRetry ==
    /\ Len(provider_log) <= 1
    /\ request.address = "" => provider_log = <<>>
    /\ (stages # <<>> /\ request.address # "") =>
           /\ Len(provider_log) = 1
           /\ provider_log[1].query = request.address \o ", Alberta, Canada"

\* A request whose only query timed out, answered after all three stages.
C7_Witness ==
    /\ Len(stages) = 3
    /\ response = 200
    /\ Len(provider_log) = 1
    /\ provider_log[1].outcome = TimedOut

\* C8: the zoning is RC when 'commercial' is a hint and the acreage is above 5,
\* C2 when 'commercial' is a hint and the acreage is 5 or less (a 'rural' hint
\* changes nothing), else RUR when 'rural' is a hint or the acreage is above 2,
\* else R1; a missing acreage counts as 0.
C8_ZoningTable ==
    call.op = "_get_zoning_information" =>
        LET details == call.info.property_details
            acreage == IF details.acreage = None THEN 0 ELSE details.acreage[1]
            commercial == \E i \in DOMAIN details.zoning_hints :
                              details.zoning_hints[i] = "commercial"
            rural == \E i \in DOMAIN details.zoning_hints :
                         details.zoning_hints[i] = "rural"
        IN  call.result.zoning =
                IF commercial /\ acreage > 500 THEN "RC - Rural Commercial"
                ELSE IF commercial THEN "C2 - Community Commercial"
                ELSE IF rural \/ acreage > 200 THEN "RUR - Rural Residential"
                ELSE "R1 - Single Family Residential"

\* Hints 'commercial' and 'rural' on exactly 5 acres: C2.
C8_Witness ==
    /\ call.op = "_get_zoning_information"
    /\ call.info.property_details.acreage = Some(500)
    /\ call.info.property_details.zoning_hints = <<"commercial", "rural">>
    /\ call.result.zoning = "C2 - Community Commercial"

\* C9: for a Rural Commercial zoning, a coverage of '40%' and an acreage of 14
\* or more, developable_acreage is acreage x 0.4, estimated_cottage_units is
\* floor(developable_acreage x 4.5) and recommended_phase_1 is min(5, units):
\* 5.82, 26 and 5 for 14.55 acres; below 14 acres cottage_potential is empty.
\* (Acreages in hundredths, developable_acreage in thousandths.)
C9_CottageArithmetic ==
    (call.op = "get_cottage_development_analysis" /\ call.policy_info.zoning # None)
    => LET zoning == call.policy_info.zoning[1]
           density == call.policy_info.density_restrictions
           acreage == IF call.property_details.acreage = None THEN 0
                      ELSE call.property_details.acreage[1]
           potential == call.result.value[1].cottage_potential
           units == (acreage * 4 * 45) \div 10000
       IN  /\ (/\ Contains(zoning, "Rural Commercial")
               /\ "maximum_site_coverage" \in DOMAIN density
               /\ density.maximum_site_coverage = "40%"
               /\ acreage >= 1400)
              => /\ potential # EmptyDict
                 /\ potential.total_acreage = acreage
                 /\ potential.developable_acreage = acreage * 4
                 /\ potential.estimated_cottage_units = units
                 /\ potential.recommended_phase_1 = (IF units < 5 THEN units ELSE 5)
                 /\ acreage = 1455 =>
                        /\ potential.developable_acreage = 5820
                        /\ potential.estimated_cottage_units = 26
                        /\ potential.recommended_phase_1 = 5
           /\ acreage < 1400 => potential = EmptyDict

\* The sample property: RC zoning, coverage 40%, 14.55 acres, 26 units.
C9_Witness ==
    /\ call.op = "get_cottage_development_analysis"
    /\ call.policy_info.zoning = Some("RC - Rural Commercial")
    /\ call.policy_info.density_restrictions
           = _get_density_restrictions("RC - Rural Commercial")
    /\ call.property_details.acreage = Some(1455)
    /\ call.result.value[1].cottage_potential.estimated_cottage_units = 26

\* C10: the feasibility is High when the zoning contains 'Rural Commercial' or
\* 'RC', Moderate when it contains 'Rural' otherwise, Low otherwise, and never
\* 'Unknown': High for RC, Moderate for RUR, Low for C2 and R1.
C10_Feasibility ==
    (call.op = "get_cottage_development_analysis" /\ ~call.result.raised)
    => LET zoning == call.policy_info.zoning[1]
           feasibility == call.result.value[1].feasibility
       IN  /\ feasibility =
                  IF Contains(zoning, "Rural Commercial") \/ Contains(zoning, "RC")
                  THEN "High"
                  ELSE IF Contains(zoning, "Rural") THEN "Moderate" ELSE "Low"
           /\ feasibility # "Unknown"
           /\ zoning = "RC - Rural Commercial" => feasibility = "High"
           /\ zoning = "RUR - Rural Residential" => feasibility = "Moderate"
           /\ zoning \in {"C2 - Community Commercial",
                          "R1 - Single Family Residential"} => feasibility = "Low"

\* The analysis of a Rural Residential zoning: Moderate.
C10_Witness ==
    /\ call.op = "get_cottage_development_analysis"
    /\ call.policy_info.zoning = Some("RUR - Rural Residential")
    /\ call.result.value[1].feasibility = "Moderate"

C12_CacheOnlyGrows ==
    [][/\ \A key \in DOMAIN policy_cache :
             /\ key \in DOMAIN policy_cache'
             /\ policy_cache'[key] = policy_cache[key]
       /\ (pc = "policy" /\ pc' = "done") =>
             LET key == [municipality_name |-> municipality_info[1].name,
                         hash |-> property_info.value[1]]
             IN  key \in DOMAIN policy_cache =>
                     /\ policy_info' = Some(policy_cache[key])
                     /\ policy_cache' = policy_cache]_vars

\* A request answered from the cache a second after its record was stored.
C12_Witness ==
    /\ pc = "done"
    /\ response = 200
    /\ cache_at_entry # EmptyDict
    /\ policy_cache = cache_at_entry
    /\ policy_info[1].last_updated < clock
    /\ \E key \in DOMAIN policy_cache : policy_cache[key] = policy_info[1]

\* C13: _find_by_name does not look at the case of the name: a name of the
\* table in any case resolves, and to the record its canonical spelling
\* resolves to ("red deer" gives the Red Deer record).
C13_CaseInsensitive ==
    call.op = "_find_by_name" =>
        \A canonical \in TableNames :
            lower(call.name) = lower(canonical) =>
                /\ call.result # None
                /\ call.result = _find_by_name(canonical)
                /\ canonical = "Red Deer" => call.result[1].name = "Red Deer"

\* The lookup of "red deer".
C13_Witness ==
    /\ call.op = "_find_by_name"
    /\ call.name = "red deer"
    /\ call.result # None
    /\ call.result[1].name = "Red Deer"

\* C14: the lookup of the exact name of a table record returns the record of
\* that name, for every city and county of the table; "Wetaskiwin County"
\* yields the record named 'Wetaskiwin County', of category county.
C14_ExactNameOwnRecord ==
    (call.op = "_find_by_name" /\ call.name \in TableNames)
    => /\ call.result # None
       /\ call.result[1].name = call.name
       /\ call.name = "Wetaskiwin County" => call.result[1].category = "county"

\* C15: every record find_municipality returns, and every record of
\* get_supported_municipalities, has a category among city, town and county,
\* and that category is the type the table gives the record.
C15_CategoryIsType ==
    LET well_categorised(municipality) ==
            /\ municipality.category \in {"city", "town", "county"}
            /\ municipality.category = municipality.type
    IN  /\ (call.op = "find_municipality" /\ call.result # None)
               => well_categorised(call.result[1])
        /\ call.op = "get_supported_municipalities"
               => \A i \in DOMAIN call.result : well_categorised(call.result[i])

C17_BandsDisjoint ==
    (call.op = "_find_by_legal_description"
        /\ call.legal_desc.type \in {"quarter_section", "section"})
    => LET township_int == int(call.legal_desc.components.township)
           range_int == int(call.legal_desc.components.range)
       IN  Cardinality({i \in DOMAIN bands :
                           in_band(township_int, range_int,
                                   bands[i].lo, bands[i].hi)}) <= 1

\* The township and range of a call of _find_by_legal_description lie in the
\* townships lo..hi and the ranges 20..30.
call_in_townships(lo, hi) ==
    /\ call.legal_desc.type \in {"quarter_section", "section"}
    /\ lo <= int(call.legal_desc.components.township)
    /\ int(call.legal_desc.components.township) <= hi
    /\ 20 <= int(call.legal_desc.components.range)
    /\ int(call.legal_desc.components.range) <= 30

component_fields ==
    [quarter_section |-> {"quarter", "section", "township", "range",
                          "meridian_direction", "meridian"},
     lot_block |-> {"lot", "block", "plan"},
     parcel |-> {"parcel", "plan"},
     section |-> {"section", "township", "range", "meridian_direction",
                  "meridian"}]

\* C19: _parse_legal_description takes the first of quarter_section,
\* lot_block, parcel, section that matches somewhere in the text, also when a
\* later one matches too: the type is its name and the components are its
\* fields; when none matches the type is unknown and the components are empty.
C19_FirstPatternWins ==
    call.op = "_parse_legal_description" =>
        LET order == <<"quarter_section", "lot_block", "parcel", "section">>
            matching == {i \in 1..4 :
                            search(legal_patterns[order[i]], call.legal_desc).ok}
            first == CHOOSE i \in matching : \A j \in matching : i <= j
        IN  IF matching = {}
            THEN /\ call.result.type = "unknown"
                 /\ call.result.components = EmptyDict
            ELSE /\ call.result.type = order[first]
                 /\ DOMAIN call.result.components = component_fields[order[first]]
                 /\ call.result.components =
                        legal_components(order[first], call.legal_desc,
                            search(legal_patterns[order[first]], call.legal_desc))

\* A text with a lot and block first and a quarter section after it: the type
\* is quarter_section, the quarter SW.
C19_Witness ==
    /\ call.op = "_parse_legal_description"
    /\ search(legal_patterns.lot_block, call.legal_desc).ok
    /\ search(legal_patterns.quarter_section, call.legal_desc).ok
    /\ call.result.type = "quarter_section"
    /\ call.result.components.quarter = "SW"
    /\ call.result.components.township = "45"

\* C20: _parse_address gives the type street, with the components number and
\* street, when the street pattern matches, also when the rural pattern
\* matches too; the type rural when only the rural pattern matches; the type
\* unknown when neither does; and a postal code found in the text is among the
\* components.
C20_StreetFirst ==
    call.op = "_parse_address" =>
        LET street == search(address_patterns.street_address, call.address).ok
            rural == search(address_patterns.rural_address, call.address).ok
            postal == search(address_patterns.postal_code, call.address).ok
            components == call.result.components
        IN  /\ street => /\ call.result.type = "street"
                         /\ {"number", "street"} \subseteq DOMAIN components
            /\ (~street /\ rural) =>
                   /\ call.result.type = "rural"
                   /\ {"road_type", "road_number"} \subseteq DOMAIN components
            /\ (~street /\ ~rural) => call.result.type = "unknown"
            /\ postal <=> "postal_code" \in DOMAIN components

\* C21: every postal code _parse_address stores has six characters, is in
\* upper case and holds no whitespace character, so that codes that differ in
\* case and in the whitespace between their halves are stored as one value:
\* "t4n 3t4" and "T4N3T4" are both stored as "T4N3T4".
C21_PostalCodeNormalized ==
    (call.op = "_parse_address" /\ "postal_code" \in DOMAIN call.result.components)
    => LET postal_code == call.result.components.postal_code
       IN  /\ Len(postal_code) = 6
           /\ upper(postal_code) = postal_code
           /\ \A i \in 1..Len(postal_code) : CharAt(postal_code, i) \notin Whitespace
           /\ call.address \in {"t4n 3t4", "T4N3T4"} => postal_code = "T4N3T4"

\* C22: the hints of a record are the names of the gazetteer found in its
\* text, in the order of the gazetteer (municipalities, then counties) and not
\* of the text, a county name coming with the municipality name it contains;
\* find_municipality returns the municipality of the first hint of that order
\* that resolves by name.
C22_GazetteerOrder ==
    call.op = "find_municipality" =>
        LET raw == call.info.raw_input
            text == lower(raw.address \o " " \o raw.legal_description
                          \o " " \o raw.additional_info)
            gazetteer == municipalities \o counties
            hints == call.info.municipality_hints
            resolvable == {i \in DOMAIN hints : _find_by_name(hints[i]) # None}
        IN  /\ hints = SelectSeq(gazetteer, LAMBDA n : Contains(text, lower(n)))
            /\ \A i \in DOMAIN hints, j \in DOMAIN municipalities :
                   Contains(hints[i], municipalities[j])
                       => \E k \in 1..i : hints[k] = municipalities[j]
            /\ resolvable # {} =>
                   call.result =
                       _find_by_name(hints[CHOOSE i \in resolvable :
                                              \A j \in resolvable : i <= j])

\* Edmonton is mentioned before Red Deer: Red Deer is the first hint and the
\* result.
C22_Witness ==
    /\ call.op = "find_municipality"
    /\ call.info.raw_input.additional_info = "near Edmonton, not Red Deer"
    /\ call.info.municipality_hints = <<"Red Deer", "Edmonton">>
    /\ call.result # None
    /\ call.result[1].name = "Red Deer"

\* C23: the municipality _find_by_coordinates returns is at the minimum
\* distance of the whole table, and it is the first municipality of the table
\* order (cities, then counties) at that distance: a later one at an equal
\* distance does not replace it.
C23_FirstClosestWins ==
    (call.op = "_find_by_coordinates" /\ call.result # None)
    => LET distances == distances_from(call.lat, call.lon)
           entries == all_entries(1)
           closest == {i \in DOMAIN distances :
                          \A j \in DOMAIN distances : distances[i] <= distances[j]}
           first == CHOOSE i \in closest : \A j \in closest : i <= j
       IN  /\ call.result[1].distance_km = distances[first]
           /\ call.result[1].name = entries[first].entry.name

\* Two municipalities at the same, least distance from the point: the first of
\* the table is returned.
C23_Witness ==
    /\ call.op = "_find_by_coordinates"
    /\ call.result # None
    /\ \E i, j \in DOMAIN distances_from(call.lat, call.lon) :
           /\ i < j
           /\ distances_from(call.lat, call.lon)[i] = call.result[1].distance_km
           /\ distances_from(call.lat, call.lon)[j] = call.result[1].distance_km
           /\ all_entries(1)[i].entry.name = call.result[1].name

\* C24: for every zoning the engine chooses (RC, C2, RUR, R1), the setbacks,
\* the density_restrictions and the height_restrictions of the zoning
\* information are all non-empty: each lookup chain ends in a default.
C24_TablesNonEmpty ==
    call.op = "_get_zoning_information" =>
        /\ call.result.zoning \in {"RC - Rural Commercial", "C2 - Community Commercial",
                                   "RUR - Rural Residential",
                                   "R1 - Single Family Residential"}
        /\ call.result.setbacks # EmptyDict
        /\ call.result.density_restrictions # EmptyDict
        /\ call.result.height_restrictions # EmptyDict

C27_TableNameResolves ==
    /\ \A n \in TableNames : InList(n, municipalities \o counties)
    /\ call.op = "find_municipality" =>
           LET raw == call.info.raw_input
               text == lower(raw.address \o " " \o raw.legal_description
                             \o " " \o raw.additional_info)
               named == {n \in TableNames : Contains(text, lower(n))}
               hints == call.info.municipality_hints
           IN  named # {} =>
                   /\ \A n \in named : InList(n, hints)
                   /\ call.result # None
                   /\ \E i \in DOMAIN hints :
                          /\ \A j \in 1..(i - 1) : _find_by_name(hints[j]) = None
                          /\ call.result = _find_by_name(hints[i])

\* 'Ponoka County', geocoded to Red Deer: the hint 'Ponoka' resolves to
\* nothing, the hint 'Ponoka County' to the county, which is returned.
C27_Witness ==
    /\ call.op = "find_municipality"
    /\ call.info.raw_input.address = "Ponoka County"
    /\ call.info.municipality_hints = <<"Ponoka", "Ponoka County">>
    /\ call.info.coordinates # None
    /\ method_2(call.info) # None
    /\ call.result # None
    /\ call.result[1].name = "Ponoka County"

\* C28: the cache is written only when the whole computation succeeded. A
\* call whose zoning determination raises returns the record with an 'error'
\* field and no zoning, and leaves the cache as it found it, without an entry
\* for its key; no record of the cache has an 'error' field; a call that
\* succeeds stores what it returns; and a call whose key failed before does
\* not get the failed record back: it computes again, at its own time.
C28_FailureNotCached ==
    call.op = "get_land_use_policies" =>
        LET key == [municipality_name |-> call.municipality_info.name,
                    hash |-> call.property_info]
            details == call.property_info.property_details
            failed == "error" \in DOMAIN call.result
        IN  /\ \A k \in DOMAIN policy_cache : "error" \notin DOMAIN policy_cache[k]
            /\ failed <=> /\ details.acreage = Str("20")
                          /\ details.zoning_hints = <<"commercial">>
            /\ failed => /\ policy_cache = call.cache_before
                         /\ key \notin DOMAIN policy_cache
                         /\ call.result.zoning = None
                         /\ call.result.last_updated = clock - 1
            /\ ~failed => /\ key \in DOMAIN policy_cache
                          /\ policy_cache[key] = call.result
                          /\ call.result.zoning # None
            /\ \A e \in call.earlier :
                   (/\ e.municipality_info = call.municipality_info
                    /\ e.property_info = call.property_info
                    /\ "error" \in DOMAIN e.result)
                   => (failed /\ call.result # e.result)

\* A call fails, another stores its record, and the first call made again
\* fails again, with a record of its own time.
C28_Witness ==
    /\ call.op = "get_land_use_policies"
    /\ "error" \in DOMAIN call.result
    /\ call.cache_before # EmptyDict
    /\ policy_cache = call.cache_before
    /\ \E e \in call.earlier :
           /\ e.municipality_info = call.municipality_info
           /\ e.property_info = call.property_info
           /\ "error" \in DOMAIN e.result
           /\ e.result.last_updated < call.result.last_updated

\* C29: whenever get_cottage_development_analysis produces a cottage_potential,
\* the acreage is 14 or more, estimated_cottage_units is at least 25 (the 25 of
\* 14 acres) and recommended_phase_1 is exactly 5: the cap of min(5, units)
\* binds.
C29_CapAlwaysBinds ==
    (/\ call.op = "get_cottage_development_analysis"
     /\ ~call.result.raised
     /\ call.result.value[1].cottage_potential # EmptyDict)
    => LET potential == call.result.value[1].cottage_potential
       IN  /\ potential.total_acreage >= 1400
           /\ potential.estimated_cottage_units >= 25
           /\ potential.recommended_phase_1 = 5
           /\ potential.recommended_phase_1 < potential.estimated_cottage_units
           /\ potential.total_acreage = 1400 => potential.estimated_cottage_units = 25

\* Exactly 14 acres of Rural Commercial: 25 units, 5 in the first phase.
C29_Witness ==
    /\ call.op = "get_cottage_development_analysis"
    /\ ~call.result.raised
    /\ call.property_details.acreage = Some(1400)
    /\ call.result.value[1].cottage_potential # EmptyDict
    /\ call.result.value[1].cottage_potential.estimated_cottage_units = 25
    /\ call.result.value[1].cottage_potential.recommended_phase_1 = 5

\* C30: the feasibility summary of every request answered with a policy
\* record reports development_potential 'High', whatever the cottage analysis
\* says of the zoning: the record has no error, its zoning is one of RC, C2,
\* RUR and R1, and each of the four is rated 'High'.
C30_AlwaysHigh ==
    (pc = "done" /\ response = 200) =>
        /\ "error" \notin DOMAIN policy_info[1]
        /\ policy_info[1].zoning \in
               {Some("RC - Rural Commercial"), Some("C2 - Community Commercial"),
                Some("RUR - Rural Residential"),
                Some("R1 - Single Family Residential")}
        /\ development_potential(policy_info[1]) = "High"
        /\ \A code \in {"RC - Rural Commercial", "C2 - Community Commercial",
                         "RUR - Rural Residential", "R1 - Single Family Residential"} :
               development_potential([zoning |-> Some(code)]) = "High"

\* A request answered with an R1 record, which the cottage analysis rates Low
\* and the summary High.
C30_Witness ==
    /\ pc = "done"
    /\ response = 200
    /\ policy_info[1].zoning = Some("R1 - Single Family Residential")
    /\ cottage_branch("R1 - Single Family Residential",
                      policy_info[1].density_restrictions, 0).feasibility = "Low"
    /\ development_potential(policy_info[1]) = "High"
====
